---- MODULE Spec2Model ----
(***************************************************************************)
(* Workflow execution engine of the humanizer repository:                  *)
(*   - StateManager        (src/src/orchestration/state_manager.py)        *)
(*   - ErrorHandler        (src/src/orchestration/error_handler.py)        *)
(*   - ProductionOrchestrator.run_workflow      (src/main.py)              *)
(*   - Orchestrator.run_pipeline (src/src/orchestrator/orchestrator.py)    *)
(*                                                                         *)
(* Texts are natural numbers (a text-transforming stage returns a new      *)
(* text, input + 1), scores are integers on the percentage scale, and      *)
(* timestamps are readings of a logical clock.                             *)
(***************************************************************************)
EXTENDS Integers, Sequences, FiniteSets, TLC

VARIABLES
    \* ---- the disk (checkpoint_dir and backup_dir) ----
    live,        \* workflow id -> content of checkpoint_dir/{id}.json
    tmpf,        \* content of the mkstemp() sibling file of the save in progress
    backups,     \* files of backup_dir, oldest mtime first: [wid, data]
    \* ---- StateManager, in memory ----
    cur,         \* StateManager.current_state (NoState is Python's None)
    savePc,      \* position inside save_checkpoint: idle, open, written, backed
    saveBackup,  \* the backup argument of the save in progress
    saveResult,  \* what the last save_checkpoint returned: none, True, False
    committed,   \* workflow id -> document of the last save that reached its rename
    clock,       \* datetime.now() as a logical clock
    faults,      \* number of kills, I/O errors and stage failures injected so far
    \* ---- the control loops ----
    mode,        \* which loop runs: none, workflow (main.py), pipeline (orchestrator.py)
    pc,          \* position of the control loop
    runs,        \* number of control-loop executions started so far
    loc,         \* the local variables of the running loop
    obs,         \* what the loop has been observed to do in this execution
    \* ---- ErrorHandler.execute_tool_safely ----
    eh           \* the retry loop: configuration, attempt, invocations, sleeps, result

vars == <<live, tmpf, backups, cur, savePc, saveBackup, saveResult, committed,
          clock, faults, mode, pc, runs, loc, obs, eh>>

diskVars  == <<live, tmpf, backups>>
storeVars == <<cur, savePc, saveBackup, saveResult, committed, clock>>
loopVars  == <<mode, pc, runs, loc, obs>>

-----------------------------------------------------------------------------
(* Bounds of the model *)

\* largest value of the clock: bounds the number of complete_workflow calls
MaxClock == 2
\* largest number of IterationState records a client of the StateManager starts
StoreMaxIter == 1
\* largest number of executions of a control loop on one workflow
MaxRuns == 2

\* largest number of kills, I/O errors and failed stage calls in one behaviour
MaxFaults == 1
\* max_iterations of the configuration (the default is 7)
MaxIterations == 2
\* largest max_retries an ErrorHandler is built with (the default is 3)
MaxRetries == 4
\* largest quality score, in tenths (the scale ends at 10.0)
MaxQuality == 100
\* largest number of handle_validation_failure calls on one ErrorHandler
MaxValidations == 1
\* largest number of save_checkpoint / load_workflow calls of one process
MaxOps == 2
\* largest detection score adjust_aggression is applied to
MaxScore == 100
\* largest number of components one IterationState records in the store's own specification
MaxComponents == 1

(* Program constants *)

\* target_originality_threshold, on the percentage scale (main.py default 20.0)
Threshold == 20

\* _cleanup_old_backups(..., keep=10)
Keep == 10

-----------------------------------------------------------------------------
(* Workflow identifiers are character sequences, so that the glob pattern   *)
(* "{workflow_id}_*.json" can be matched the way pathlib matches it.        *)

W1 == <<"w">>
W2 == <<"w", "_", "x">>
Wids == {W1, W2}

-----------------------------------------------------------------------------
(* Files *)

NoFile == [kind |-> "none"]
PartialFile == [kind |-> "partial"]        \* a truncated JSON document
JsonFile(doc) == [kind |-> "json", doc |-> doc]

NoState == [none |-> TRUE]

NoScores == <<"None">>                      \* final_scores = None
EmptyScores == <<"dict">>                   \* final_scores = {}
Scores(w, o) == <<"dict", w, o>>            \* {"weighted": w, "originality": o}

IterationState(iteration, aggression_level) ==
    [iteration |-> iteration,
     detection_score |-> 0,
     originality_score |-> 0,
     gptzero_score |-> 0,
     aggression_level |-> aggression_level,
     components_executed |-> <<>>,
     component_outputs |-> <<>>,
     completed |-> FALSE,
     status |-> "in_progress"]

WorkflowState(workflow_id, original_text, threshold, max_iterations, now) ==
    [workflow_id |-> workflow_id,
     original_text |-> original_text,
     current_text |-> original_text,
     target_originality_threshold |-> threshold,
     max_iterations |-> max_iterations,
     current_iteration |-> 0,
     iterations |-> <<>>,
     human_inputs |-> <<>>,
     started_at |-> now,
     completed_at |-> 0,
     status |-> "in_progress",
     final_scores |-> NoScores]

-----------------------------------------------------------------------------
(* Serialisation: asdict + json.dumps on save, json.load + dataclass        *)
(* constructors on load.  JSON object keys are strings, so the int keys of  *)
(* human_inputs come back as strings.                                       *)

IntKey(n) == <<"int", n>>
StrKey(n) == <<"str", n>>

JsonKeys(d) == {StrKey(k[2]) : k \in DOMAIN d}

JsonDict(d) ==
    [k \in JsonKeys(d) |->
        IF IntKey(k[2]) \in DOMAIN d THEN d[IntKey(k[2])] ELSE d[k]]

json_dumps(state) == [state EXCEPT !.human_inputs = JsonDict(state.human_inputs)]

json_load(doc) == doc

-----------------------------------------------------------------------------
(* StateManager *)

GlobMatches(workflow_id, file_wid) ==
    \/ file_wid = workflow_id
    \/ /\ Len(file_wid) > Len(workflow_id)
       /\ SubSeq(file_wid, 1, Len(workflow_id) + 1) = workflow_id \o <<"_">>

RECURSIVE DropMatching(_, _, _)
\* bk without the first n files whose name matches the pattern of workflow_id
DropMatching(bk, workflow_id, n) ==
    IF n <= 0 \/ bk = <<>> THEN bk
    ELSE IF GlobMatches(workflow_id, Head(bk).wid)
         THEN DropMatching(Tail(bk), workflow_id, n - 1)
         ELSE <<Head(bk)>> \o DropMatching(Tail(bk), workflow_id, n)

CountMatching(bk, workflow_id) ==
    Cardinality({i \in DOMAIN bk : GlobMatches(workflow_id, bk[i].wid)})

\* for backup in backups[:-keep]: backup.unlink()
cleanup_old_backups(bk, workflow_id, keep) ==
    DropMatching(bk, workflow_id, CountMatching(bk, workflow_id) - keep)

\* the rotation run before the copy instead of after it
BackupRotateFirst(bk, lv, state, backup) ==
    IF backup /\ lv[state.workflow_id] # NoFile
    THEN Append(cleanup_old_backups(bk, state.workflow_id, Keep),
                [wid |-> state.workflow_id, data |-> lv[state.workflow_id]])
    ELSE bk

\* lines 213-221: copy the live checkpoint into backup_dir, then rotate
BackupStep(bk, lv, state, backup) ==
    IF backup /\ lv[state.workflow_id] # NoFile
    THEN cleanup_old_backups(
             Append(bk, [wid |-> state.workflow_id, data |-> lv[state.workflow_id]]),
             state.workflow_id, Keep)
    ELSE bk

\* line 224: shutil.move(temp_path, checkpoint_path)
RenameStep(lv, state, tmp) == [lv EXCEPT ![state.workflow_id] = tmp]

\* what load_workflow returns for a checkpoint file
load_workflow(file) ==
    IF file.kind = "json" THEN json_load(file.doc) ELSE NoState

start_iteration(state, iteration, aggression_level) ==
    [state EXCEPT !.iterations = Append(@, IterationState(iteration, aggression_level)),
                  !.current_iteration = iteration]

Put(f, k, v) == [x \in DOMAIN f \cup {k} |-> IF x = k THEN v ELSE f[x]]

\* update_iteration without scores
update_iteration(state, component, output) ==
    LET n == Len(state.iterations) IN
    [state EXCEPT !.iterations[n].components_executed = Append(@, component),
                  !.iterations[n].component_outputs = Put(@, component, output)]

\* update_iteration(..., detection_score=d, originality_score=o)
update_iteration_scores(state, component, output, d, o) ==
    LET n == Len(state.iterations) IN
    [update_iteration(state, component, output)
        EXCEPT !.iterations[n].detection_score = d,
               !.iterations[n].originality_score = o]

complete_iteration(state, humanized_text) ==
    LET n == Len(state.iterations) IN
    [state EXCEPT !.iterations[n].completed = TRUE,
                  !.iterations[n].status = "completed",
                  !.current_text = humanized_text]

complete_workflow(state, final_scores, status, now) ==
    [state EXCEPT !.completed_at = now,
                  !.status = status,
                  !.final_scores = final_scores]

\* the document written straight into checkpoint_path
WriteInPlace == "live"

\* lines 199-205: the file save_checkpoint writes the document to
WriteTarget == "tmp"

\* save_checkpoint as one call that meets no I/O error: the disk it leaves
save_backups(bk, lv, state, backup) == BackupStep(bk, lv, state, backup)
save_live(lv, state) == RenameStep(lv, state, JsonFile(json_dumps(state)))

\* datetime.now(): time does not go back, and stops at the bound
Now == {t \in {clock, clock + 1} : t >= 1 /\ t <= MaxClock}

-----------------------------------------------------------------------------
(* Initial state: empty directories, a fresh StateManager, no loop running *)

\* the locals of a control loop: it = the loop counter (current_iteration),
\* num = iteration_num, stop = the last iteration allowed, text = current_text,
\* score = detection_score (Unbound before its first assignment),
\* orig = originality_score, aggr = aggression_level, stage = index of the next
\* stage, errors = the errors list of execute_iteration, calls = the tool
\* calls of execute_iteration in this iteration: the tool, the text it was
\* given, whether it returned, and the text its output carried
Unbound == -1
LocInit ==
    [it |-> 0, num |-> 0, stop |-> 0, text |-> 0, score |-> Unbound, orig |-> 0,
     aggr |-> "none", init_aggr |-> "none", stage |-> 0, errors |-> <<>>, calls |-> <<>>]

\* what this execution of the loop did: resumed = it was given a workflow_id,
\* base = current_iteration as created or loaded,
\* starts = calls of start_iteration, first = number of the first iteration
\* started, exc = the exception that reached the caller, critfail = a critical
\* stage has failed with ToolExecutionError after its attempts, exit = the
\* branch of run_pipeline that left the for loop ("gate", "early", or "none"
\* while the loop has not taken one of the two)
ObsInit ==
    [resumed |-> FALSE, base |-> 0, starts |-> 0, first |-> 0, exc |-> "none",
     critfail |-> FALSE, exit |-> "none"]
\* error_handler.py 32-42: the fields of an ErrorContext that log_error keeps
ErrorContext(severity, recoverable) == [severity |-> severity, recoverable |-> recoverable]

\* an ErrorHandler and its call of execute_tool_safely: attempt = the loop
\* variable, invocations = subprocess.run calls, sleeps = the time.sleep
\* arguments in order, outcomes = what each invocation ended in,
\* error_history = the ErrorContext records logged, output = the parsed
\* output returned (tagged with the attempt that produced it), recovery = the
\* quality score handle_validation_failure was given and its action, result = how the call ended
EhInit ==
    [max_retries |-> 0, retry_delay_seconds |-> 0, attempt |-> 0, invocations |-> 0,
     sleeps |-> <<>>, outcomes |-> <<>>, error_history |-> <<>>, result |-> "idle",
     output |-> <<"none">>, recovery |-> <<"none">>]

InitBase ==
    /\ live = [w \in Wids |-> NoFile]
    /\ tmpf = NoFile
    /\ backups = <<>>
    /\ cur = NoState
    /\ savePc = "idle"
    /\ saveBackup = FALSE
    /\ saveResult = "none"
    /\ committed = [w \in Wids |-> NoFile]
    /\ clock = 0
    /\ faults = 0
    /\ mode = "none"
    /\ pc = "idle"
    /\ runs = 0
    /\ loc = LocInit
    /\ obs = ObsInit
    /\ eh = EhInit

-----------------------------------------------------------------------------
(* SpecStore: a client calls the StateManager's operations in any order.    *)
(* save_checkpoint is taken one system call at a time, and the process may  *)
(* be killed or meet an I/O error between any two of them.                  *)

StoreWids == {W1}

Idle == savePc = "idle"

BeginSave(backup) ==
    /\ savePc' = "begin"
    /\ saveBackup' = backup
    /\ saveResult' = "none"

\* create_workflow, lines 126-141, for a workflow that has no checkpoint yet
SCreate(wid) ==
    /\ Idle /\ cur = NoState /\ live[wid] = NoFile
    /\ \E now \in Now :
          /\ clock' = now
          /\ cur' = WorkflowState(wid, 0, Threshold, MaxIterations, now)
    /\ BeginSave(TRUE)
    /\ UNCHANGED <<diskVars, committed, loopVars, eh, faults>>

\* load_workflow, lines 155-178: None leaves current_state as it was
SLoad(wid) ==
    /\ Idle /\ cur = NoState
    /\ cur' = IF load_workflow(live[wid]) = NoState THEN cur ELSE load_workflow(live[wid])
    /\ UNCHANGED <<diskVars, savePc, saveBackup, saveResult, committed, clock, loopVars, eh, faults>>

SStartIteration ==
    /\ Idle /\ cur # NoState
    /\ Len(cur.iterations) < StoreMaxIter
    /\ cur' = start_iteration(cur, cur.current_iteration + 1, "gentle")
    /\ UNCHANGED <<diskVars, savePc, saveBackup, saveResult, committed, clock, loopVars, eh, faults>>

SUpdateIteration ==
    /\ Idle /\ cur # NoState /\ cur.iterations # <<>>
    /\ Len(cur.iterations[Len(cur.iterations)].components_executed) < MaxComponents
    /\ cur' = update_iteration(cur, "term_protector", cur.current_text + 1)
    /\ BeginSave(FALSE)
    /\ UNCHANGED <<diskVars, committed, clock, loopVars, eh, faults>>

SCompleteIteration ==
    /\ Idle /\ cur # NoState /\ cur.iterations # <<>>
    /\ ~cur.iterations[Len(cur.iterations)].completed
    /\ cur' = complete_iteration(cur, cur.current_text + 1)
    /\ BeginSave(TRUE)
    /\ UNCHANGED <<diskVars, committed, clock, loopVars, eh, faults>>

SCompleteWorkflow(status) ==
    /\ Idle /\ cur # NoState
    /\ cur.status = "in_progress"
    /\ \E now \in Now :
          /\ clock' = now
          /\ cur' = complete_workflow(cur, Scores(0, 0), status, now)
    /\ BeginSave(TRUE)
    /\ UNCHANGED <<diskVars, committed, loopVars, eh, faults>>

\* lines 195-203: json.dumps, mkstemp: the write has begun
SaveOpen ==
    /\ savePc = "begin"
    /\ savePc' = "open"
    /\ IF WriteTarget = "tmp"
       THEN tmpf' = PartialFile /\ live' = live
       ELSE tmpf' = tmpf /\ live' = [live EXCEPT ![cur.workflow_id] = PartialFile]
    /\ UNCHANGED <<backups, cur, saveBackup, saveResult, committed, clock, loopVars, eh, faults>>

\* lines 205-211: write, flush, fsync
SaveWrite ==
    /\ savePc = "open"
    /\ savePc' = "written"
    /\ IF WriteTarget = "tmp"
       THEN tmpf' = JsonFile(json_dumps(cur)) /\ live' = live
       ELSE tmpf' = tmpf /\ live' = [live EXCEPT ![cur.workflow_id] = JsonFile(json_dumps(cur))]
    /\ UNCHANGED <<backups, cur, saveBackup, saveResult, committed, clock, loopVars, eh, faults>>

\* lines 213-221
SaveBackup ==
    /\ savePc = "written"
    /\ savePc' = "backed"
    /\ backups' = BackupStep(backups, live, cur, saveBackup)
    /\ UNCHANGED <<live, tmpf, cur, saveBackup, saveResult, committed, clock, loopVars, eh, faults>>

\* lines 223-226: the rename, and return True
SaveRename ==
    /\ savePc = "backed"
    /\ savePc' = "idle"
    /\ saveResult' = "True"
    /\ IF WriteTarget = "tmp"
       THEN live' = RenameStep(live, cur, tmpf) /\ tmpf' = NoFile
       ELSE live' = live /\ tmpf' = tmpf
    /\ committed' = [committed EXCEPT ![cur.workflow_id] = JsonFile(json_dumps(cur))]
    /\ UNCHANGED <<backups, cur, saveBackup, clock, loopVars, eh, faults>>

\* lines 228-233: an exception anywhere in the try block
SaveFail ==
    /\ savePc \in {"begin", "open", "written", "backed"}
    /\ savePc' = "idle"
    /\ saveResult' = "False"
    /\ tmpf' = NoFile
    /\ faults < MaxFaults /\ faults' = faults + 1
    /\ UNCHANGED <<live, backups, cur, saveBackup, committed, clock, loopVars, eh>>

\* the process is killed: memory is lost, the disk stays as it is
Crash ==
    /\ cur # NoState
    /\ cur' = NoState
    /\ savePc' = "idle"
    /\ saveResult' = "none"
    /\ faults < MaxFaults /\ faults' = faults + 1
    /\ UNCHANGED <<diskVars, saveBackup, committed, clock, loopVars, eh>>

NextStore ==
    \/ \E wid \in StoreWids : SCreate(wid)
    \/ \E wid \in StoreWids : SLoad(wid)
    \/ SStartIteration
    \/ SUpdateIteration
    \/ SCompleteIteration
    \/ \E status \in {"completed", "failed"} : SCompleteWorkflow(status)
    \/ SaveOpen
    \/ SaveWrite
    \/ SaveBackup
    \/ SaveRename
    \/ SaveFail
    \/ Crash

SpecStore == InitBase /\ [][NextStore]_vars

\* C1: the live checkpoint of every workflow is at all times the complete
\* document of the last save that reached its rename (or absent when there
\* was none), so load_workflow returns that previously saved state whatever
\* happened to a later save_checkpoint between the start of its write and
\* its rename: a kill, or an I/O error.
C1_LiveIsLastSaved ==
    \A w \in Wids :
        /\ live[w].kind # "partial"
        /\ load_workflow(live[w]) = load_workflow(committed[w])

\* a save was killed in the middle of its write, after an earlier save had succeeded
C1_Witness ==
    /\ cur = NoState
    /\ tmpf = PartialFile
    /\ committed[W1] # NoFile
    /\ live[W1] = committed[W1]

-----------------------------------------------------------------------------
(* SpecBackup: the operations that save with backup=True, in any order,     *)
(* each one a whole call that meets no I/O error.  Time advances at         *)
(* create_workflow only, and one iteration is started per workflow.         *)

\* save_checkpoint(backup) from entry to return True
AtomicSave(state, backup) ==
    /\ backups' = save_backups(backups, live, state, backup)
    /\ live' = save_live(live, state)
    /\ committed' = [committed EXCEPT ![state.workflow_id] = JsonFile(json_dumps(state))]
    /\ saveResult' = "True"
    /\ UNCHANGED <<tmpf, savePc, saveBackup>>

\* create_workflow, lines 126-143: no look at what is on the disk.  Two
\* workflows are not created at the same instant, which bounds their number.
BCreate(wid) ==
    /\ clock < MaxClock
    /\ clock' = clock + 1
    /\ cur' = WorkflowState(wid, 0, Threshold, MaxIterations, clock + 1)
    /\ AtomicSave(cur', TRUE)
    /\ UNCHANGED <<loopVars, eh, faults>>

BStartIteration ==
    /\ cur # NoState
    /\ cur.iterations = <<>>
    /\ cur' = start_iteration(cur, cur.current_iteration + 1, "gentle")
    /\ UNCHANGED <<diskVars, savePc, saveBackup, saveResult, committed, clock, loopVars, eh, faults>>

BCompleteIteration ==
    /\ cur # NoState /\ cur.iterations # <<>>
    /\ cur' = complete_iteration(cur, 1)
    /\ AtomicSave(cur', TRUE)
    /\ UNCHANGED <<clock, loopVars, eh, faults>>

BCompleteWorkflow(status) ==
    /\ cur # NoState
    /\ \E now \in {clock} :
          /\ clock' = now
          /\ cur' = complete_workflow(cur, Scores(0, 0), status, now)
    /\ AtomicSave(cur', TRUE)
    /\ UNCHANGED <<loopVars, eh, faults>>

BSaveCheckpoint ==
    /\ cur # NoState
    /\ AtomicSave(cur, TRUE)
    /\ UNCHANGED <<cur, clock, loopVars, eh, faults>>

NextBackup ==
    \/ \E wid \in StoreWids : BCreate(wid)
    \/ BStartIteration
    \/ BCompleteIteration
    \/ \E status \in {"completed"} : BCompleteWorkflow(status)
    \/ BSaveCheckpoint

SpecBackup == InitBase /\ [][NextBackup]_vars

BackupsOf(wid) == {i \in DOMAIN backups : backups[i].wid = wid}

\* C9: whatever backed-up saves have run, and in whatever order, backup_dir
\* holds at most Keep (10) backup files of a workflow.
C9_BackupsWithinRetention ==
    \A w \in Wids : Cardinality(BackupsOf(w)) <= Keep

\* the rotation has deleted a file: Keep backups are left, and the oldest of
\* them is no longer the first checkpoint the workflow ever had
C9_Witness ==
    /\ Cardinality(BackupsOf(W1)) = Keep
    /\ backups[1].data # JsonFile(json_dumps(WorkflowState(W1, 0, Threshold, MaxIterations, 1)))

-----------------------------------------------------------------------------
(* The control loops *)

\* ProductionOrchestrator.aggression_levels and Orchestrator.REVERSE_AGGRESSION_MAP
aggression_levels == <<"gentle", "moderate", "aggressive", "intensive", "nuclear">>

AggressionNames == {aggression_levels[i] : i \in DOMAIN aggression_levels}

\* list.index: 0 when the value is not in the list (Python raises ValueError)
LevelIndex(name) ==
    IF name \in AggressionNames
    THEN CHOOSE i \in DOMAIN aggression_levels : aggression_levels[i] = name
    ELSE 0

\* what a caller may pass as options["initial_aggression"]
InitialAggressions == {"moderate", "extreme"}

\* detection scores a detector may report
LoopScores == {20, 40, 50}

Min(a, b) == IF a < b THEN a ELSE b
Max(a, b) == IF a > b THEN a ELSE b

\* main.py 454-489.  "ValueError" stands for the exception list.index raises.
select_aggression_level(state, iteration_num) ==
    IF iteration_num = 1 THEN "gentle"
    ELSE IF Len(state.iterations) < 2 THEN "gentle"
    ELSE LET n == Len(state.iterations)
             score_diff == state.iterations[n - 1].detection_score
                           - state.iterations[n].detection_score
             last == state.iterations[n].aggression_level
         IN IF score_diff < 5
            THEN IF LevelIndex(last) = 0 THEN "ValueError"
                 ELSE aggression_levels[Min(LevelIndex(last) + 1, Len(aggression_levels))]
            ELSE last

\* the tests on the gap with >= for >
adjust_aggression_inclusive(state, current_score, target_score) ==
    LET score_gap == current_score - target_score
        current_level ==
            IF state # NoState /\ state.iterations # <<>>
            THEN LET name == state.iterations[Len(state.iterations)].aggression_level
                 IN IF name \in AggressionNames THEN LevelIndex(name) ELSE 2
            ELSE 2
        new_level ==
            IF score_gap >= 50 THEN Min(5, current_level + 2)
            ELSE IF score_gap >= 30 THEN Min(5, current_level + 1)
            ELSE IF score_gap >= 10
                 THEN (IF current_level < 3 THEN Min(5, current_level + 1) ELSE current_level)
            ELSE IF score_gap >= 0 THEN current_level
            ELSE Max(1, current_level - 1)
    IN aggression_levels[new_level]

\* orchestrator.py 575-623
adjust_aggression(state, current_score, target_score) ==
    LET score_gap == current_score - target_score
        current_level ==
            IF state # NoState /\ state.iterations # <<>>
            THEN LET name == state.iterations[Len(state.iterations)].aggression_level
                 IN IF name \in AggressionNames THEN LevelIndex(name) ELSE 2
            ELSE 2
        new_level ==
            IF score_gap > 50 THEN Min(5, current_level + 2)
            ELSE IF score_gap > 30 THEN Min(5, current_level + 1)
            ELSE IF score_gap > 10
                 THEN (IF current_level < 3 THEN Min(5, current_level + 1) ELSE current_level)
            ELSE IF score_gap > 0 THEN current_level
            ELSE Max(1, current_level - 1)
    IN aggression_levels[new_level]

\* the two tests with > for >=
handle_validation_failure_strict(quality_score) ==
    IF quality_score > 60 THEN "skip"
    ELSE IF quality_score > 40 THEN "retry"
    ELSE "manual"

\* error_handler.py 285-293, as the value of the RecoveryAction.  Quality
\* scores are in tenths: 60 is 6.0.
handle_validation_failure(quality_score) ==
    IF quality_score >= 60 THEN "skip"
    ELSE IF quality_score >= 40 THEN "retry"
    ELSE "manual"

\* main.py 558-572
handle_error(err, quality_score) ==
    IF err = "ValidationError" THEN handle_validation_failure(quality_score)
    ELSE "retry"

\* the threshold test with < for <=
GateStrict(detection_score, target_threshold) == detection_score < target_threshold

\* orchestrator.py 550-573 and main.py 185
evaluate_quality_gates(detection_score, target_threshold) ==
    detection_score <= target_threshold

\* orchestrator.py 625-660 with early_termination_improvement = 0.02:
\* (prev - cur) / prev < 2 / 100, and 0 < 0.02 when prev is not positive
should_terminate_early(state) ==
    IF Len(state.iterations) < 2 THEN FALSE
    ELSE LET n == Len(state.iterations)
             prev_score == state.iterations[n - 1].detection_score
             current_score == state.iterations[n].detection_score
         IN IF prev_score > 0
            THEN 100 * (prev_score - current_score) < 2 * prev_score
            ELSE TRUE

\* the steps of one iteration of run_workflow, main.py 148-174
WorkflowStages ==
    <<"term_protector", "paraphraser", "paraphraser_processor", "fingerprint_remover",
      "burstiness_enhancer", "detector_processor", "perplexity_calculator", "validator">>

\* orchestrator.py 60-70
TOOL_PIPELINE ==
    <<"term_protector", "paraphraser_processor", "fingerprint_remover",
      "imperfection_injector", "burstiness_enhancer", "reference_analyzer",
      "detector_processor", "perplexity_calculator", "validator">>

\* the stages whose response carries a text field
TextStages ==
    {"term_protector", "paraphraser_processor", "fingerprint_remover",
     "imperfection_injector", "burstiness_enhancer", "reference_analyzer"}

\* orchestrator.py 369
CriticalStages == {"paraphraser_processor", "validator"}

\* the stages of run_workflow whose call is taken to fail: the first one, and
\* a critical one that runs after the detector
FailingStages == {"term_protector", "validator"}

\* the tools of run_pipeline whose call is taken to fail: a non-critical one
\* that follows a text stage, the detector, and a critical one
FailingTools == {"fingerprint_remover", "detector_processor", "validator"}

-----------------------------------------------------------------------------
(* Spec: the two control loops on one workflow.  Each stage call is one     *)
(* step (the call with its retries, then update_iteration and its save);    *)
(* the process may be killed between steps and the workflow resumed by the  *)
(* same loop.  Human injection is switched off (--no-human-injection).      *)

LoopWid == W1

Ended == pc \in {"idle", "done", "raised"}

\* the loop counter starts one iteration back
ResumePointRedo(state) == Max(0, state.current_iteration - 1)

\* main.py 125 and orchestrator.py 204: where the loop counter starts
ResumePoint(state) == state.current_iteration

BeginRun(m, state, init_aggr, stop, resumed) ==
    /\ mode' = m
    /\ runs' = runs + 1
    /\ pc' = "head"
    /\ loc' = [LocInit EXCEPT !.it = ResumePoint(state),
                              !.text = state.current_text,
                              !.stop = stop,
                              !.init_aggr = init_aggr]
    /\ obs' = [ObsInit EXCEPT !.base = state.current_iteration, !.resumed = resumed]

Raise(exc) ==
    /\ pc' = "raised"
    /\ obs' = [obs EXCEPT !.exc = exc]

\* main.py 113-126 and orchestrator.py 185-200: a new workflow
RunNew(m, init_aggr) ==
    /\ Ended /\ runs < MaxRuns
    /\ mode \in {"none", m}
    /\ live[LoopWid] = NoFile
    /\ \E now \in Now :
         LET state == WorkflowState(LoopWid, 0, Threshold, MaxIterations, now) IN
         /\ clock' = now
         /\ cur' = state
         /\ AtomicSave(state, TRUE)
         /\ BeginRun(m, state, init_aggr, MaxIterations, FALSE)
    /\ UNCHANGED <<eh, faults>>

\* main.py 107-112 and orchestrator.py 180-184: resume from the checkpoint
RunResume(m, init_aggr) ==
    /\ Ended /\ runs < MaxRuns
    /\ mode \in {"none", m}
    /\ LET state == load_workflow(live[LoopWid]) IN
         IF state = NoState
         THEN /\ mode' = m
              /\ runs' = runs + 1
              /\ loc' = LocInit
              /\ pc' = "raised"
              /\ obs' = [ObsInit EXCEPT !.exc = "NotFound", !.resumed = TRUE]
              /\ cur' = cur
         ELSE /\ cur' = state
              /\ BeginRun(m, state, init_aggr,
                          IF m = "workflow" THEN MaxIterations ELSE state.max_iterations,
                          TRUE)
    /\ UNCHANGED <<diskVars, savePc, saveBackup, saveResult, committed, clock, eh, faults>>

NoteStart(iteration) ==
    obs' = [obs EXCEPT !.starts = @ + 1,
                       !.first = IF obs.starts = 0 THEN iteration ELSE @]

\* ---- ProductionOrchestrator.run_workflow ----

\* main.py 128-145: the while test, _select_aggression_level, start_iteration
WHead ==
    /\ mode = "workflow" /\ pc = "head"
    /\ IF loc.it < loc.stop
       THEN LET iteration_num == loc.it + 1
                aggression_level == select_aggression_level(cur, iteration_num)
            IN IF aggression_level = "ValueError"
               THEN Raise("ValueError") /\ UNCHANGED <<cur, loc>>
               ELSE /\ cur' = start_iteration(cur, iteration_num, aggression_level)
                    /\ loc' = [loc EXCEPT !.num = iteration_num,
                                          !.aggr = aggression_level,
                                          !.stage = 1]
                    /\ NoteStart(iteration_num)
                    /\ pc' = "stage"
       ELSE pc' = "final" /\ UNCHANGED <<cur, loc, obs>>
    /\ UNCHANGED <<diskVars, savePc, saveBackup, saveResult, committed, clock, mode, runs,
                   eh, faults>>

\* main.py 148-174: one _execute_* step that returns
WStageOk ==
    /\ mode = "workflow" /\ pc = "stage"
    /\ LET name == WorkflowStages[loc.stage] IN
       \E d \in (IF name = "detector_processor" THEN LoopScores ELSE {0}) :
         LET text == IF name \in TextStages THEN loc.text + 1 ELSE loc.text
             state == IF name = "detector_processor"
                      THEN update_iteration_scores(cur, name, d, d, d)
                      ELSE update_iteration(cur, name, IF name \in TextStages THEN text ELSE 0)
         IN /\ cur' = state
            /\ AtomicSave(state, FALSE)
            /\ loc' = [loc EXCEPT !.text = text,
                                  !.score = IF name = "detector_processor" THEN d ELSE @,
                                  !.stage = @ + 1]
            /\ pc' = IF loc.stage = Len(WorkflowStages) THEN "complete" ELSE "stage"
    /\ UNCHANGED <<clock, mode, runs, obs, eh, faults>>

\* main.py 202-213: a step raises, _handle_error picks the recovery action
WStageFail ==
    /\ mode = "workflow" /\ pc = "stage"
    /\ WorkflowStages[loc.stage] \in FailingStages
    /\ faults < MaxFaults
    /\ faults' = faults + 1
    /\ \E err \in {"ToolExecutionError", "ValidationError"}, q \in {32, 50, 70} :
         /\ err = "ToolExecutionError" => q = 32
         /\ err = "ValidationError" => WorkflowStages[loc.stage] = "validator"
         /\ pc' = IF handle_error(err, q) = "abort" THEN "final" ELSE "head"
         /\ obs' = [obs EXCEPT !.critfail = @ \/ (/\ err = "ToolExecutionError"
                                                  /\ WorkflowStages[loc.stage] \in CriticalStages)]
    /\ UNCHANGED <<diskVars, storeVars, mode, runs, loc, eh>>

\* main.py 176-200: complete_iteration, the threshold test, the counter
WComplete ==
    /\ mode = "workflow" /\ pc = "complete"
    /\ LET state == complete_iteration(cur, loc.text) IN
         /\ cur' = state
         /\ AtomicSave(state, TRUE)
    /\ IF evaluate_quality_gates(loc.score, Threshold)
       THEN pc' = "final" /\ loc' = loc
       ELSE pc' = "head" /\ loc' = [loc EXCEPT !.it = loc.num]
    /\ UNCHANGED <<clock, mode, runs, obs, eh, faults>>

\* main.py 215-231
WFinal ==
    /\ mode = "workflow" /\ pc = "final"
    /\ IF loc.score = Unbound
       THEN /\ Raise("UnboundLocalError")
            /\ UNCHANGED <<diskVars, storeVars>>
       ELSE /\ \E now \in Now :
                 LET status == IF loc.score <= Threshold THEN "completed" ELSE "max_iterations"
                     state == complete_workflow(cur, Scores(loc.score, loc.score), status, now)
                 IN /\ clock' = now
                    /\ cur' = state
                    /\ AtomicSave(state, TRUE)
            /\ pc' = "done"
            /\ obs' = obs
    /\ UNCHANGED <<mode, runs, loc, eh, faults>>

\* ---- Orchestrator.run_pipeline ----

\* what detector_processor may report: a score, or 0 for an output without
\* a "detection_score" key (final_scores keeps its initial 0)
DetectorReports == LoopScores \cup {0}

LastIteration(state) == state.iterations[Len(state.iterations)]

\* orchestrator.py 204-222 and 313-323: the for test, the aggression for
\* this iteration, start_iteration, the locals of execute_iteration
PHead ==
    /\ mode = "pipeline" /\ pc = "head"
    /\ IF loc.it + 1 <= loc.stop
       THEN LET iteration == loc.it + 1
                aggression ==
                    IF iteration = 1 THEN loc.init_aggr
                    ELSE adjust_aggression(cur, LastIteration(cur).detection_score, Threshold)
            IN /\ cur' = start_iteration(cur, iteration, aggression)
               /\ loc' = [loc EXCEPT !.num = iteration,
                                     !.aggr = aggression,
                                     !.text = cur.current_text,
                                     !.score = 0,
                                     !.orig = 0,
                                     !.stage = 1,
                                     !.errors = <<>>,
                                     !.calls = <<>>]
               /\ NoteStart(iteration)
               /\ pc' = "stage"
       ELSE pc' = "after" /\ UNCHANGED <<cur, loc, obs>>
    /\ UNCHANGED <<diskVars, savePc, saveBackup, saveResult, committed, clock, mode, runs,
                   eh, faults>>

\* an output with no "processed_text", "text" or "result" key
NoTextField == <<"none">>

ToolCall(tool, text, ok, out) == [tool |-> tool, text |-> text, ok |-> ok, out |-> out]

\* orchestrator.py 326-350: a tool that returns its output
PStageOk ==
    /\ mode = "pipeline" /\ pc = "stage"
    /\ LET tool_name == TOOL_PIPELINE[loc.stage] IN
       \E d \in (IF tool_name = "detector_processor" THEN DetectorReports ELSE {0}) :
         LET output == IF tool_name \in TextStages THEN loc.text + 1 ELSE d
             state == update_iteration(cur, tool_name, output)
         IN /\ cur' = state
            /\ AtomicSave(state, FALSE)
            /\ loc' = [loc EXCEPT
                        !.text = IF tool_name \in TextStages THEN output
                                 ELSE state.current_text,
                        !.score = IF tool_name = "detector_processor" THEN d ELSE @,
                        !.orig = IF tool_name = "detector_processor" THEN d ELSE @,
                        !.stage = @ + 1,
                        !.calls = Append(@, ToolCall(tool_name, loc.text, TRUE,
                                     IF tool_name \in TextStages THEN <<"text", output>>
                                     ELSE NoTextField))]
            /\ pc' = IF loc.stage = Len(TOOL_PIPELINE) THEN "complete" ELSE "stage"
    /\ UNCHANGED <<clock, mode, runs, obs, eh, faults>>

\* the failed stage's input is dropped: the next stage gets the iteration's
\* input text
PStageFailResetsText ==
    /\ mode = "pipeline" /\ pc = "stage"
    /\ TOOL_PIPELINE[loc.stage] \in FailingTools
    /\ faults < MaxFaults
    /\ faults' = faults + 1
    /\ eh' = [eh EXCEPT !.error_history = Append(@, ErrorContext("error", FALSE))]
    /\ LET tool_name == TOOL_PIPELINE[loc.stage]
           failed == [loc EXCEPT !.errors = Append(@, tool_name),
                                 !.text = cur.current_text,
                                 !.calls = Append(@, ToolCall(tool_name, loc.text, FALSE,
                                                              NoTextField))]
       IN IF tool_name \in CriticalStages
          THEN pc' = "except" /\ loc' = failed /\ obs' = [obs EXCEPT !.critfail = TRUE]
          ELSE pc' = "stage" /\ loc' = [failed EXCEPT !.stage = @ + 1] /\ obs' = obs
    /\ UNCHANGED <<diskVars, storeVars, mode, runs>>

\* orchestrator.py 352-372: a tool that raises
PStageFail ==
    /\ mode = "pipeline" /\ pc = "stage"
    /\ TOOL_PIPELINE[loc.stage] \in FailingTools
    /\ faults < MaxFaults
    /\ faults' = faults + 1
    /\ eh' = [eh EXCEPT !.error_history = Append(@, ErrorContext("error", FALSE))]
    /\ LET tool_name == TOOL_PIPELINE[loc.stage]
           failed == [loc EXCEPT !.errors = Append(@, tool_name),
                                 !.calls = Append(@, ToolCall(tool_name, loc.text, FALSE,
                                                              NoTextField))]
       IN IF tool_name \in CriticalStages
          THEN pc' = "except" /\ loc' = failed /\ obs' = [obs EXCEPT !.critfail = TRUE]
          ELSE pc' = "stage" /\ loc' = [failed EXCEPT !.stage = @ + 1] /\ obs' = obs
    /\ UNCHANGED <<diskVars, storeVars, mode, runs>>

\* orchestrator.py 374-375
PComplete ==
    /\ mode = "pipeline" /\ pc = "complete"
    /\ LET state == complete_iteration(cur, loc.text) IN
         /\ cur' = state
         /\ AtomicSave(state, TRUE)
    /\ pc' = "scores"
    /\ UNCHANGED <<clock, mode, runs, loc, obs, eh, faults>>

\* orchestrator.py 377-383
PScores ==
    /\ mode = "pipeline" /\ pc = "scores"
    /\ IF loc.score > 0
       THEN LET n == Len(cur.iterations)
                state == [cur EXCEPT !.iterations[n].detection_score = loc.score,
                                     !.iterations[n].originality_score = loc.orig,
                                     !.iterations[n].gptzero_score = 0]
            IN /\ cur' = state
               /\ AtomicSave(state, TRUE)
       ELSE UNCHANGED <<diskVars, storeVars>>
    /\ pc' = "gate"
    /\ UNCHANGED <<clock, mode, runs, loc, obs, eh, faults>>

\* the diminishing-returns test made before the quality gate
ExitTakenEarlyFirst(state, iteration, detection_score) ==
    IF iteration > 1 /\ should_terminate_early(state) THEN "early"
    ELSE IF evaluate_quality_gates(detection_score, Threshold) THEN "gate"
    ELSE "none"

\* orchestrator.py 229 and 244: which branch, if any, leaves the for loop
ExitTaken(state, iteration, detection_score) ==
    IF evaluate_quality_gates(detection_score, Threshold) THEN "gate"
    ELSE IF iteration > 1 /\ should_terminate_early(state) THEN "early"
    ELSE "none"

\* orchestrator.py 224-256: the quality gate, then early termination
PGate ==
    /\ mode = "pipeline" /\ pc = "gate"
    /\ LET state == [cur EXCEPT !.current_text = loc.text, !.current_iteration = loc.num] IN
       /\ obs' = [obs EXCEPT !.exit = ExitTaken(state, loc.num, loc.score)]
       /\ IF ExitTaken(state, loc.num, loc.score) # "none"
          THEN /\ \E now \in Now :
                    LET done == complete_workflow(state, Scores(loc.score, loc.orig),
                                                  "completed", now)
                    IN /\ clock' = now
                       /\ cur' = done
                       /\ AtomicSave(done, TRUE)
               /\ pc' = "after"
               /\ loc' = loc
          ELSE /\ cur' = state
               /\ pc' = "head"
               /\ loc' = [loc EXCEPT !.it = loc.num]
               /\ UNCHANGED <<diskVars, savePc, saveBackup, saveResult, committed, clock>>
    /\ UNCHANGED <<mode, runs, eh, faults>>

\* orchestrator.py 258-271
PAfter ==
    /\ mode = "pipeline" /\ pc = "after"
    /\ IF cur.current_iteration >= cur.max_iterations
       THEN \E now \in Now :
              LET done == complete_workflow(cur,
                              Scores(LastIteration(cur).detection_score,
                                     LastIteration(cur).originality_score),
                              "completed", now)
              IN /\ clock' = now
                 /\ cur' = done
                 /\ AtomicSave(done, TRUE)
       ELSE UNCHANGED <<diskVars, storeVars>>
    /\ pc' = "done"
    /\ UNCHANGED <<mode, runs, loc, obs, eh, faults>>

\* orchestrator.py 273-282
PExcept ==
    /\ mode = "pipeline" /\ pc = "except"
    /\ \E now \in Now :
         LET done == complete_workflow(cur, EmptyScores, "failed", now) IN
         /\ clock' = now
         /\ cur' = done
         /\ AtomicSave(done, TRUE)
    /\ Raise("ProcessingError")
    /\ UNCHANGED <<mode, runs, loc, eh, faults>>

\* where a kill is taken: before an iteration starts, inside an iteration
\* after its first save, after complete_iteration, before the final save
KillPoint ==
    \/ pc \in {"head", "scores", "final", "after"}
    \/ pc = "stage" /\ loc.stage = 2

\* the process is killed between two steps of a loop and the disk stays; a
\* kill after which nothing runs again is left out
Kill ==
    /\ KillPoint
    /\ runs < MaxRuns
    /\ cur' = NoState
    /\ pc' = "idle"
    /\ loc' = LocInit
    /\ obs' = ObsInit
    /\ eh' = EhInit
    /\ UNCHANGED <<diskVars, savePc, saveBackup, saveResult, committed, clock, mode, runs,
                   faults>>

Next ==
    \/ RunNew("workflow", "none")
    \/ RunResume("workflow", "none")
    \/ \E a \in InitialAggressions : RunNew("pipeline", a)
    \/ \E a \in InitialAggressions : RunResume("pipeline", a)
    \/ WHead \/ WStageOk \/ WStageFail \/ WComplete \/ WFinal
    \/ PHead \/ PStageOk \/ PStageFail \/ PComplete \/ PScores \/ PGate \/ PAfter \/ PExcept
    \/ Kill

Spec == InitBase /\ [][Next]_vars

-----------------------------------------------------------------------------
(* Properties of the control loops *)

Completed(state) == {i \in DOMAIN state.iterations : state.iterations[i].completed}

\* the IterationState records this execution of the loop appended
StartedHere(state) ==
    {i \in DOMAIN state.iterations : i > Len(state.iterations) - obs.starts}

\* C2: a control loop given an existing workflow_id starts no iteration whose
\* number is that of an iteration already marked completed, and the first
\* iteration it starts is numbered current_iteration + 1, current_iteration
\* being the value loaded from the checkpoint
C2_ResumeStartsAfterLoaded ==
    (cur # NoState /\ obs.resumed) =>
        /\ obs.starts > 0 => obs.first = obs.base + 1
        /\ \A j \in StartedHere(cur) : \A i \in Completed(cur) :
             i < j => cur.iterations[i].iteration # cur.iterations[j].iteration

\* a resumed loop has started an iteration on top of a completed one
C2_Witness ==
    /\ cur # NoState /\ obs.resumed
    /\ obs.base >= 1 /\ obs.starts >= 1
    /\ \E i \in Completed(cur) : i <= Len(cur.iterations) - obs.starts

\* C3: run_workflow calls start_iteration at most max_iterations minus the
\* current_iteration it started from, whatever the stages do, on its way to
\* finalization or to raising to its caller
C3_StartsWithinBudget ==
    (mode = "workflow" /\ pc # "idle") => obs.starts <= MaxIterations - obs.base

\* C4: once an iteration k this loop ran is completed with a detection score
\* at or below the target threshold, the loop starts no iteration after k and
\* the workflow ends with status = completed
C4_GateEndsLoop ==
    cur # NoState =>
        \A k \in StartedHere(cur) \cap Completed(cur) :
            cur.iterations[k].detection_score <= Threshold =>
                /\ k = Len(cur.iterations)
                /\ pc # "raised"
                /\ pc = "done" => cur.status = "completed"

\* the loop has ended on a passing iteration that is not the last one allowed
C4_Witness ==
    /\ cur # NoState /\ pc = "done"
    /\ Len(cur.iterations) \in StartedHere(cur) \cap Completed(cur)
    /\ LastIteration(cur).detection_score = Threshold
    /\ LastIteration(cur).iteration < MaxIterations

Terminal(state) == state # NoState /\ state.status \in {"completed", "failed"}

\* C5: status only takes the values in_progress, completed, failed, paused,
\* and once the checkpointed workflow is completed or failed no later step
\* changes its status, completed_at, final_scores, current_text or iterations
C5_TerminalImmutable ==
    [][LET before == load_workflow(live[LoopWid])
           after == load_workflow(live'[LoopWid])
       IN /\ after # NoState =>
               after.status \in {"in_progress", "completed", "failed", "paused"}
          /\ Terminal(before) =>
               /\ after # NoState
               /\ after.status = before.status
               /\ after.completed_at = before.completed_at
               /\ after.final_scores = before.final_scores
               /\ after.current_text = before.current_text
               /\ after.iterations = before.iterations]_vars

\* C6: in every reachable WorkflowState at most one element of iterations
\* has completed = false
C6_OneOpenIteration ==
    cur # NoState =>
        Cardinality(DOMAIN cur.iterations \ Completed(cur)) <= 1

\* C7: when no iteration is under way and N iterations have run to
\* completion, len(iterations) = current_iteration = N and iterations[i]
\* carries the number i + 1 (0-based i)
C7_DenseNumbering ==
    (cur # NoState /\ cur.iterations # <<>> /\ LastIteration(cur).completed) =>
        LET N == Cardinality(Completed(cur)) IN
        /\ Len(cur.iterations) = N
        /\ cur.current_iteration = N
        /\ \A i \in DOMAIN cur.iterations : cur.iterations[i].iteration = i

\* C8: every IterationState a control loop appends carries one of the five
\* aggression levels gentle, moderate, aggressive, intensive, nuclear
C8_AggressionInRange ==
    cur # NoState =>
        \A i \in DOMAIN cur.iterations :
            cur.iterations[i].aggression_level \in AggressionNames

-----------------------------------------------------------------------------
(* SpecRetry: one ErrorHandler and one call of execute_tool_safely *)

\* retry_delay_seconds an ErrorHandler is built with
RetryDelays == {1, 3}

\* the failures retried, were unparseable output one of them
RetryableWithJson == {"nonzero_exit", "error_field", "timeout", "invalid_json"}

\* non-zero exit, 'error' in the output, subprocess.TimeoutExpired
Retryable == {"nonzero_exit", "error_field", "timeout"}

\* how one invocation of the tool may end
Outcomes == {"ok", "invalid_json", "exception"} \cup Retryable

\* the wait grows by retry_delay_seconds with each attempt
LinearDelay(retry_delay_seconds, attempt) == retry_delay_seconds * (attempt + 1)

\* error_handler.py 178, 203, 236
backoff_delay(retry_delay_seconds, attempt) == retry_delay_seconds * (2 ^ attempt)

\* error_handler.py 62-105: ErrorHandler(max_retries, retry_delay_seconds)
ENew(max_retries, retry_delay_seconds) ==
    /\ eh.result = "idle"
    /\ eh' = [EhInit EXCEPT !.max_retries = max_retries,
                            !.retry_delay_seconds = retry_delay_seconds,
                            !.result = "ready"]
    /\ UNCHANGED <<diskVars, storeVars, loopVars, faults>>

\* error_handler.py 122-146: the call enters the for loop
ECall ==
    /\ eh.result = "ready"
    /\ eh' = [eh EXCEPT !.result = "running"]
    /\ UNCHANGED <<diskVars, storeVars, loopVars, faults>>

\* error_handler.py 146-252: one pass of the loop body.  A raise inside the
\* try block (lines 184, 207, 221) is caught by "except Exception", logged
\* as FATAL and raised again; the raise of line 240 is in a handler.
EAttempt(outcome) ==
    /\ eh.result = "running"
    /\ eh.attempt < eh.max_retries
    /\ LET last == ~(eh.attempt < eh.max_retries - 1)
           logged ==
               IF outcome = "ok" THEN <<>>
               ELSE IF outcome = "exception" THEN <<ErrorContext("fatal", FALSE)>>
               ELSE IF outcome = "invalid_json"
                    THEN <<ErrorContext("error", FALSE), ErrorContext("fatal", FALSE)>>
               ELSE IF last /\ outcome # "timeout"
                    THEN <<ErrorContext("error", TRUE), ErrorContext("fatal", FALSE)>>
               ELSE <<ErrorContext("error", TRUE)>>
       IN eh' = [eh EXCEPT
                  !.invocations = @ + 1,
                  !.outcomes = Append(@, outcome),
                  !.error_history = @ \o logged,
                  !.sleeps = IF outcome \in Retryable /\ ~last
                             THEN Append(@, backoff_delay(eh.retry_delay_seconds, eh.attempt))
                             ELSE @,
                  !.attempt = IF outcome \in Retryable /\ ~last THEN @ + 1 ELSE @,
                  !.output = IF outcome = "ok" THEN <<"output", eh.attempt>> ELSE @,
                  !.result = IF outcome = "ok" THEN "returned"
                             ELSE IF outcome \in Retryable /\ ~last THEN "running"
                             ELSE "raised"]
    /\ UNCHANGED <<diskVars, storeVars, loopVars, faults>>

\* line 146 with nothing to iterate over: the function returns None
EFallThrough ==
    /\ eh.result = "running"
    /\ ~(eh.attempt < eh.max_retries)
    /\ eh' = [eh EXCEPT !.result = "None"]
    /\ UNCHANGED <<diskVars, storeVars, loopVars, faults>>

NextRetry ==
    \/ \E m \in 0..MaxRetries, d \in RetryDelays : ENew(m, d)
    \/ ECall
    \/ \E outcome \in Outcomes : EAttempt(outcome)
    \/ EFallThrough

SpecRetry == InitBase /\ [][NextRetry]_vars

\* C10: execute_tool_safely invokes the stage at most max_retries times;
\* after a retryable failure of attempt k (0-based) with k < max_retries - 1
\* it waits retry_delay_seconds * 2^k before attempt k + 1; after the failure
\* of the final attempt it does not wait and raises ToolExecutionError
C10_BoundedRetriesWithBackoff ==
    /\ eh.invocations <= eh.max_retries
    /\ Len(eh.sleeps) <= Len(eh.outcomes)
    /\ \A n \in DOMAIN eh.outcomes :
         LET k == n - 1 IN
         IF eh.outcomes[n] \in Retryable /\ k < eh.max_retries - 1
         THEN /\ Len(eh.sleeps) >= n
              /\ eh.sleeps[n] = eh.retry_delay_seconds * (2 ^ k)
              /\ eh.invocations = n => eh.result = "running"
         ELSE /\ Len(eh.sleeps) = k
              /\ eh.outcomes[n] # "ok" => eh.result = "raised"

\* the call has failed max_retries times and raised after two waits or more
C10_Witness ==
    /\ eh.result = "raised"
    /\ eh.max_retries >= 3
    /\ eh.invocations = eh.max_retries
    /\ eh.outcomes[eh.max_retries] \in Retryable
    /\ Len(eh.sleeps) = eh.max_retries - 1

C12_CriticalFailureFailsWorkflow ==
    (cur # NoState /\ obs.critfail) =>
        \/ pc = "except"
        \/ /\ pc = "raised"
           /\ obs.exc = "ToolExecutionError"
           /\ LET saved == load_workflow(live[LoopWid]) IN
                /\ saved # NoState
                /\ saved.status = "failed"
                /\ ~LastIteration(saved).completed

-----------------------------------------------------------------------------
(* SpecStage: one stage step of run_workflow, _execute_paraphraser_processor, *)
(* in the first iteration of a new workflow: the call of execute_tool_safely  *)
(* with its attempts, then update_iteration.                                  *)

StageName == "paraphraser_processor"

\* the stage is recorded once for each attempt made
update_iteration_per_attempt(state, component, output) ==
    LET n == Len(state.iterations) IN
    [state EXCEPT !.iterations[n].components_executed =
                      @ \o [k \in 1..eh.invocations |-> component],
                  !.iterations[n].component_outputs = Put(@, component, output)]

\* main.py 302-305: update_iteration(component, output) of the step
record_stage(state, component, output) == update_iteration(state, component, output)

\* main.py 113-145: the new workflow and its first iteration
TStart ==
    /\ pc = "idle" /\ eh.result = "ready"
    /\ \E now \in Now :
         LET state == WorkflowState(LoopWid, 0, Threshold, MaxIterations, now) IN
         /\ clock' = now
         /\ cur' = start_iteration(state, 1, "gentle")
         /\ AtomicSave(state, TRUE)
    /\ pc' = "stage"
    /\ mode' = "workflow"
    /\ UNCHANGED <<runs, loc, obs, eh, faults>>

\* main.py 282-294: the step calls execute_tool_safely
TCall == pc = "stage" /\ ECall

\* main.py 296-305: the call returned, the step records the stage
TRecord ==
    /\ pc = "stage" /\ eh.result = "returned"
    /\ LET state == record_stage(cur, StageName, eh.output) IN
         /\ cur' = state
         /\ AtomicSave(state, FALSE)
    /\ pc' = "recorded"
    /\ UNCHANGED <<clock, mode, runs, loc, obs, eh, faults>>

\* the call raised, or returned None (then output.get raises AttributeError)
TSurface ==
    /\ pc = "stage" /\ eh.result \in {"raised", "None"}
    /\ pc' = "raised"
    /\ obs' = [obs EXCEPT !.exc = IF eh.result = "raised" THEN "ToolExecutionError"
                                  ELSE "AttributeError"]
    /\ UNCHANGED <<diskVars, storeVars, mode, runs, loc, eh, faults>>

NextStage ==
    \/ \E m \in 0..MaxRetries, d \in RetryDelays : ENew(m, d)
    \/ TStart
    \/ TCall
    \/ \E outcome \in Outcomes : EAttempt(outcome)
    \/ EFallThrough
    \/ TRecord
    \/ TSurface

SpecStage == InitBase /\ [][NextStage]_vars

Occurrences(seq, x) == Cardinality({k \in DOMAIN seq : seq[k] = x})

\* C13: a stage call that fails f < max_retries times with retryable
\* failures and then succeeds returns the successful output, surfaces no
\* error to the control loop, and leaves the stage exactly once in the
\* iteration's components_executed, recorded with the successful output
C13_RetriedStageRecordedOnce ==
    /\ (/\ eh.result \notin {"idle", "ready"}
        /\ \A n \in DOMAIN eh.outcomes : eh.outcomes[n] \in Retryable
        /\ Len(eh.outcomes) < eh.max_retries)
         => eh.result = "running"
    /\ (eh.outcomes # <<>> /\ eh.outcomes[Len(eh.outcomes)] = "ok") =>
         /\ eh.result = "returned"
         /\ eh.output = <<"output", Len(eh.outcomes) - 1>>
         /\ pc # "raised" /\ obs.exc = "none"
         /\ pc = "recorded" =>
              /\ Occurrences(LastIteration(cur).components_executed, StageName) = 1
              /\ LastIteration(cur).component_outputs[StageName] = eh.output

\* two retryable failures, success on the third attempt, the stage recorded
C13_Witness ==
    /\ pc = "recorded"
    /\ Len(eh.outcomes) = 3 /\ eh.max_retries = 3
    /\ eh.outcomes[1] \in Retryable /\ eh.outcomes[2] \in Retryable
    /\ Len(eh.sleeps) = 2

-----------------------------------------------------------------------------
(* SpecValidation: handle_validation_failure on every quality score *)

\* validation_result.get('quality_score', 0.0), in tenths
QualityScores == 0..MaxQuality

\* error_handler.py 254-293
VHandle(quality_score) ==
    /\ Len(eh.error_history) < MaxValidations
    /\ eh' = [eh EXCEPT
                !.error_history =
                    Append(@, ErrorContext(IF quality_score >= 60 THEN "warning" ELSE "error",
                                           TRUE)),
                !.recovery = <<quality_score, handle_validation_failure(quality_score)>>]
    /\ UNCHANGED <<diskVars, storeVars, loopVars, faults>>

NextValidation == \E q \in QualityScores : VHandle(q)

SpecValidation == InitBase /\ [][NextValidation]_vars

\* C14: handle_validation_failure gives Skip for a score >= 6.0, Retry for
\* 4.0 <= score < 6.0 and Manual for a score < 4.0: 3.2 gives Manual, 5.0
\* Retry, 7.0 Skip, and the boundaries 4.0 and 6.0 give Retry and Skip
C14_ValidationActionByScore ==
    eh.recovery # <<"none">> =>
        LET score == eh.recovery[1]
            action == eh.recovery[2]
        IN /\ action \in {"skip", "retry", "manual"}
           /\ action = "skip" <=> score >= 60
           /\ action = "retry" <=> (40 <= score /\ score < 60)
           /\ action = "manual" <=> score < 40
           /\ score = 32 => action = "manual"
           /\ score = 50 => action = "retry"
           /\ score = 70 => action = "skip"
           /\ score = 40 => action = "retry"
           /\ score = 60 => action = "skip"

\* the function was applied to the boundary 6.0
C14_Witness == eh.recovery = <<60, "skip">>

-----------------------------------------------------------------------------
\* C15: create_workflow(id, ...) called while a checkpoint for id exists
\* fails and leaves the existing checkpoint and its backups unchanged
C15_CreateRefusesExisting ==
    [][\A wid \in Wids :
         (BCreate(wid) /\ live[wid] # NoFile) => (live' = live /\ backups' = backups)]_vars

-----------------------------------------------------------------------------
(* SpecLock: two processes, each with its own StateManager on the same       *)
(* checkpoint directory, save and load the checkpoint of one workflow.  In   *)
(* this specification loc holds the processes and the flock table: a process *)
(* is [at, ops, tmp]; locks maps a file to the set of <<process, mode>> that *)
(* hold a lock on it.  The lockable files are the checkpoint file and        *)
(* the mkstemp file of each process.                                         *)

Procs == {1, 2}

TmpOf(p) == <<"tmp", p>>

\* checkpoint_dir / f"{workflow_id}.json"
CkptFile == <<"ckpt", 0>>

LockFiles == {CkptFile} \cup {TmpOf(p) : p \in Procs}

ProcInit == [at |-> "idle", ops |-> 0, tmp |-> NoFile]

\* the state process p saves: the workflow with p as its text
StateOf(p) == [WorkflowState(LoopWid, 0, Threshold, MaxIterations, 1) EXCEPT !.current_text = p]

\* flock(2): LOCK_EX waits while anyone else holds a lock on the file,
\* LOCK_SH while anyone else holds it exclusively
CanLock(locks, file, p, lockmode) ==
    \A h \in locks[file] :
        h[1] = p \/ (lockmode = "LOCK_SH" /\ h[2] = "LOCK_SH")

Flock(locks, file, p, lockmode) == [locks EXCEPT ![file] = @ \cup {<<p, lockmode>>}]

Funlock(locks, file, p) == [locks EXCEPT ![file] = {h \in @ : h[1] # p}]

\* state_manager.py 205-207: the lock is taken on the descriptor of the temp file
SaveLockFile(p) == TmpOf(p)

ProcStep(p, at) == loc' = [loc EXCEPT !.procs[p].at = at]

\* a workflow is on the disk and both processes are idle
LSetup ==
    /\ mode = "none" /\ pc = "idle" /\ cur = NoState /\ eh.result = "idle"
    /\ live[LoopWid] = NoFile
    /\ clock' = 1
    /\ cur' = cur
    /\ AtomicSave(WorkflowState(LoopWid, 0, Threshold, MaxIterations, 1), TRUE)
    /\ mode' = "procs"
    /\ loc' = [procs |-> [p \in Procs |-> ProcInit],
               locks |-> [f \in LockFiles |-> {}]]
    /\ UNCHANGED <<pc, runs, obs, eh, faults>>

LockUnchanged ==
    UNCHANGED <<diskVars, storeVars, mode, pc, runs, obs, eh, faults>>

\* state_manager.py 193-203: json.dumps and mkstemp
SvOpen(p) ==
    /\ mode = "procs" /\ loc.procs[p].at = "idle" /\ loc.procs[p].ops < MaxOps
    /\ loc' = [loc EXCEPT !.procs[p].at = "opened", !.procs[p].ops = @ + 1,
                          !.procs[p].tmp = NoFile]
    /\ LockUnchanged

\* line 207: fcntl.flock(f.fileno(), fcntl.LOCK_EX)
SvLock(p) ==
    /\ mode = "procs" /\ loc.procs[p].at = "opened"
    /\ CanLock(loc.locks, SaveLockFile(p), p, "LOCK_EX")
    /\ loc' = [loc EXCEPT !.procs[p].at = "locked",
                          !.locks = Flock(@, SaveLockFile(p), p, "LOCK_EX")]
    /\ LockUnchanged

\* lines 208-210: write, flush, fsync
SvWrite(p) ==
    /\ mode = "procs" /\ loc.procs[p].at = "locked"
    /\ loc' = [loc EXCEPT !.procs[p].at = "written",
                          !.procs[p].tmp = JsonFile(json_dumps(StateOf(p)))]
    /\ LockUnchanged

\* line 211: fcntl.flock(f.fileno(), fcntl.LOCK_UN), the file is closed
SvUnlock(p) ==
    /\ mode = "procs" /\ loc.procs[p].at = "written"
    /\ loc' = [loc EXCEPT !.procs[p].at = "unlocked",
                          !.locks = Funlock(@, SaveLockFile(p), p)]
    /\ LockUnchanged

\* lines 213-221: the backup copy and its rotation
SvBackup(p) ==
    /\ mode = "procs" /\ loc.procs[p].at = "unlocked"
    /\ backups' = BackupStep(backups, live, StateOf(p), TRUE)
    /\ ProcStep(p, "backed")
    /\ UNCHANGED <<live, tmpf, storeVars, mode, pc, runs, obs, eh, faults>>

\* line 224: shutil.move(temp_path, checkpoint_path)
SvRename(p) ==
    /\ mode = "procs" /\ loc.procs[p].at = "backed"
    /\ live' = RenameStep(live, StateOf(p), loc.procs[p].tmp)
    /\ committed' = [committed EXCEPT ![LoopWid] = loc.procs[p].tmp]
    /\ loc' = [loc EXCEPT !.procs[p].at = "idle", !.procs[p].tmp = NoFile]
    /\ UNCHANGED <<tmpf, backups, cur, savePc, saveBackup, saveResult, clock,
                   mode, pc, runs, obs, eh, faults>>

\* state_manager.py 155-160: exists, open
LdOpen(p) ==
    /\ mode = "procs" /\ loc.procs[p].at = "idle" /\ loc.procs[p].ops < MaxOps
    /\ live[LoopWid] # NoFile
    /\ loc' = [loc EXCEPT !.procs[p].at = "l_opened", !.procs[p].ops = @ + 1]
    /\ LockUnchanged

\* line 163: fcntl.flock(f.fileno(), fcntl.LOCK_SH)
LdLock(p) ==
    /\ mode = "procs" /\ loc.procs[p].at = "l_opened"
    /\ CanLock(loc.locks, CkptFile, p, "LOCK_SH")
    /\ loc' = [loc EXCEPT !.procs[p].at = "l_locked",
                          !.locks = Flock(@, CkptFile, p, "LOCK_SH")]
    /\ LockUnchanged

\* lines 164-165: json.load, LOCK_UN
LdRead(p) ==
    /\ mode = "procs" /\ loc.procs[p].at = "l_locked"
    /\ loc' = [loc EXCEPT !.procs[p].at = "idle",
                          !.locks = Funlock(@, CkptFile, p)]
    /\ LockUnchanged

NextLock ==
    \/ LSetup
    \/ \E p \in Procs :
         \/ SvOpen(p) \/ SvLock(p) \/ SvWrite(p) \/ SvUnlock(p) \/ SvBackup(p) \/ SvRename(p)
         \/ LdOpen(p) \/ LdLock(p) \/ LdRead(p)

SpecLock == InitBase /\ [][NextLock]_vars

\* process p is in the write section of save_checkpoint: from taking its
\* lock up to the rename
InWrite(p) == loc.procs[p].at \in {"locked", "written", "unlocked", "backed"}

HoldsShared(p) == <<p, "LOCK_SH">> \in loc.locks[CkptFile]

\* C16: while one process is inside the write section of save_checkpoint
\* for workflow W, no other process holds load_workflow's shared lock on W's
\* checkpoint and no other process is inside the write section for W
C16_WriteExcludesOthers ==
    mode = "procs" =>
        \A p \in Procs : \A q \in Procs \ {p} :
            InWrite(p) => (~InWrite(q) /\ ~HoldsShared(q))

-----------------------------------------------------------------------------
\* the completed iterations recorded before position j
CompletedBefore(state, j) == {i \in Completed(state) : i < j}

\* the k-th last element of a non-empty set of positions (k = 1: the last)
KthLast(S, k) == CHOOSE i \in S : Cardinality({x \in S : x > i}) = k - 1

\* one ordinal step up, capped at the highest level
OneStepUp(name) == aggression_levels[Min(LevelIndex(name) + 1, Len(aggression_levels))]

\* C17: for every iteration n > 1 started by run_workflow the aggression
\* level comes from the detection scores of the last two completed
\* iterations: one ordinal step above the previous iteration's level (capped
\* at level 5) if prev - current < 5.0, the previous iteration's level
\* otherwise, and also when two completed iterations do not exist yet
C17_EscalationFromCompletedScores ==
    (cur # NoState /\ mode = "workflow") =>
        \A j \in DOMAIN cur.iterations :
            LET done == CompletedBefore(cur, j) IN
            (cur.iterations[j].iteration > 1 /\ done # {}) =>
                LET current == cur.iterations[KthLast(done, 1)] IN
                cur.iterations[j].aggression_level =
                    IF /\ Cardinality(done) >= 2
                       /\ cur.iterations[KthLast(done, 2)].detection_score
                            - current.detection_score < 5
                    THEN OneStepUp(current.aggression_level)
                    ELSE current.aggression_level

-----------------------------------------------------------------------------
(* SpecAdjust: adjust_aggression on every level of the last iteration and    *)
(* every score.  In this specification loc is the call: its arguments, the   *)
(* level of the last iteration and the name returned.                        *)

\* detection_threshold * 100: the default 0.15 and main.py's 20
TargetScores == {15, Threshold}

\* orchestrator.py 212-214: the call in run_pipeline after an iteration at
\* this level with this score
AAdjust(level, current_score, target_score) ==
    /\ mode = "none" /\ cur = NoState
    /\ LET started == start_iteration(
                          WorkflowState(LoopWid, 0, target_score, MaxIterations, 1),
                          1, aggression_levels[level])
           state == [started EXCEPT !.iterations[1].detection_score = current_score]
       IN /\ cur' = state
          /\ loc' = [current_score |-> current_score,
                     target_score |-> target_score,
                     level |-> level,
                     result |-> adjust_aggression(state, current_score, target_score)]
    /\ mode' = "adjust"
    /\ UNCHANGED <<diskVars, savePc, saveBackup, saveResult, committed, clock,
                   pc, runs, obs, eh, faults>>

NextAdjust ==
    \E level \in DOMAIN aggression_levels, current_score \in 0..MaxScore,
       target_score \in TargetScores :
        AAdjust(level, current_score, target_score)

SpecAdjust == InitBase /\ [][NextAdjust]_vars

\* C18: with gap = current_score - target_score and L the level of the last
\* iteration, adjust_aggression returns min(5, L+2) if gap > 50; min(5, L+1)
\* if 30 < gap <= 50; L+1 if 10 < gap <= 30 and L < 3, else L; L if
\* 0 < gap <= 10; max(1, L-1) if gap <= 0
C18_AdjustAggressionTable ==
    mode = "adjust" =>
        LET gap == loc.current_score - loc.target_score
            L == loc.level
            new == LevelIndex(loc.result)
        IN /\ loc.result \in AggressionNames
           /\ gap > 50 => new = (IF L + 2 > 5 THEN 5 ELSE L + 2)
           /\ (30 < gap /\ gap <= 50) => new = (IF L + 1 > 5 THEN 5 ELSE L + 1)
           /\ (10 < gap /\ gap <= 30) => new = (IF L < 3 THEN L + 1 ELSE L)
           /\ (0 < gap /\ gap <= 10) => new = L
           /\ gap <= 0 => new = (IF L - 1 < 1 THEN 1 ELSE L - 1)

\* the boundary gap = 50 at level 4: one level up, to 5
C18_Witness ==
    /\ mode = "adjust"
    /\ loc.current_score - loc.target_score = 50
    /\ loc.level = 4
    /\ loc.result = "nuclear"

-----------------------------------------------------------------------------
\* C19: in execute_iteration, when a non-critical stage fails, the failure
\* is logged, every later stage of the pipeline is still invoked in pipeline
\* order, and the next stage is given the text the failed stage was given
C19_NonCriticalFailureSkipsStage ==
    (mode = "pipeline" /\ pc \in {"stage", "complete", "except"}) =>
        /\ \A k \in DOMAIN loc.calls :
             (~loc.calls[k].ok /\ loc.calls[k].tool \notin CriticalStages) =>
                /\ loc.calls[k].tool \in {loc.errors[e] : e \in DOMAIN loc.errors}
                /\ eh.error_history # <<>>
                /\ pc \in {"stage", "complete"} => loc.stage > k
                /\ k < Len(loc.calls) =>
                     /\ loc.calls[k + 1].tool = TOOL_PIPELINE[k + 1]
                     /\ loc.calls[k + 1].text = loc.calls[k].text
        /\ (pc = "complete" \/ pc = "except") =>
             \A k \in DOMAIN loc.calls : loc.calls[k].tool = TOOL_PIPELINE[k]
        /\ pc = "complete" => Len(loc.calls) = Len(TOOL_PIPELINE)

\* fingerprint_remover failed on a text that an earlier stage had changed,
\* and the iteration went through all its stages
C19_Witness ==
    /\ mode = "pipeline" /\ pc = "complete"
    /\ \E k \in DOMAIN loc.calls :
         /\ loc.calls[k].tool = "fingerprint_remover"
         /\ ~loc.calls[k].ok
         /\ loc.calls[k].text # cur.current_text

\* the text execute_iteration was called with: state.current_text
IterationInput == cur.current_text

\* C20: within one iteration the stages are invoked in the fixed pipeline
\* order; each stage is given the text output of the most recent earlier
\* stage of the iteration that succeeded with a text (the iteration's input
\* text if there is none), so after a stage whose response carries no text
\* field the text carried forward is the text that stage was given
C20_TextCarriedThroughStages ==
    (mode = "pipeline" /\ pc \in {"stage", "complete", "except"}) =>
        \A k \in DOMAIN loc.calls :
            /\ loc.calls[k].tool = TOOL_PIPELINE[k]
            /\ k = 1 => loc.calls[k].text = IterationInput
            /\ k > 1 =>
                 loc.calls[k].text =
                     IF loc.calls[k - 1].ok /\ loc.calls[k - 1].out # NoTextField
                     THEN loc.calls[k - 1].out[2]
                     ELSE loc.calls[k - 1].text

-----------------------------------------------------------------------------
\* C21: in run_workflow and in run_pipeline, when iteration k > 1 completes
\* without passing the gate and improves on iteration k - 1 by less than 2%,
\* the loop starts no further iteration and the workflow ends completed; a
\* loop allowed more than one iteration does not end this way at iteration 1
C21_DiminishingReturnsEndsLoop ==
    (cur # NoState /\ mode # "none" /\ pc # "idle") =>
        /\ \A k \in StartedHere(cur) :
             \* record k completed after the completed record of iteration
             \* k - 1, did not pass the gate, and improved on it by less
             \* than 2% of the previous score
             (/\ k > 1
              /\ cur.iterations[k].completed /\ cur.iterations[k - 1].completed
              /\ cur.iterations[k].iteration > 1
              /\ cur.iterations[k - 1].iteration = cur.iterations[k].iteration - 1
              /\ cur.iterations[k].detection_score > Threshold
              /\ cur.iterations[k - 1].detection_score > 0
              /\ 100 * (cur.iterations[k - 1].detection_score
                          - cur.iterations[k].detection_score)
                   < 2 * cur.iterations[k - 1].detection_score)
             => /\ k = Len(cur.iterations)
                /\ pc = "done" => cur.status = "completed"
        /\ (/\ pc = "done" /\ obs.starts > 0
            /\ LastIteration(cur).iteration = 1
            /\ LastIteration(cur).iteration < loc.stop
            /\ LastIteration(cur).completed)
           => LastIteration(cur).detection_score <= Threshold

-----------------------------------------------------------------------------
-----------------------------------------------------------------------------
\* C23: when the last allowed iteration completes and neither the quality
\* gate nor early termination holds, the loop finalizes the workflow with
\* status completed (one of in_progress, completed, failed, paused) and with
\* final_scores taken from the last iteration's scores
C23_BudgetExitCompleted ==
    (/\ cur # NoState /\ pc = "done" /\ obs.starts > 0
     /\ LastIteration(cur).completed
     /\ LastIteration(cur).iteration = loc.stop
     /\ cur.current_iteration = loc.stop
     /\ LastIteration(cur).detection_score > Threshold
     /\ ~(LastIteration(cur).iteration > 1 /\ should_terminate_early(cur))) =>
        /\ cur.status = "completed"
        /\ cur.status \in {"in_progress", "completed", "failed", "paused"}
        /\ cur.final_scores = Scores(LastIteration(cur).detection_score,
                                     LastIteration(cur).originality_score)

-----------------------------------------------------------------------------
\* C24: an IterationState is modified only while it is the last element of
\* iterations and not yet completed: no step of a control loop changes a
\* field of a record that complete_iteration has marked completed, or of a
\* record that is not the last one
C24_CompletedIterationFrozen ==
    [][(cur # NoState /\ cur' # NoState) =>
          \A i \in DOMAIN cur.iterations :
             (cur.iterations[i].completed \/ i < Len(cur.iterations)) =>
                /\ i \in DOMAIN cur'.iterations
                /\ cur'.iterations[i] = cur.iterations[i]]_vars

-----------------------------------------------------------------------------
\* C25: on resume an interrupted iteration is abandoned and not replayed: if
\* the last iteration n of the loaded checkpoint was never marked completed,
\* its record stays in the history and the resumed loop starts a fresh
\* iteration with the same number n; if it was completed, the resumed loop
\* starts iteration n + 1
C25_ResumeOrdinal ==
    \* the checkpoint this execution loaded held Len(iterations) - starts records
    (/\ cur # NoState /\ obs.resumed /\ obs.starts >= 1
     /\ Len(cur.iterations) - obs.starts >= 1) =>
        LET last == cur.iterations[Len(cur.iterations) - obs.starts]
            fresh == cur.iterations[Len(cur.iterations) - obs.starts + 1]
        IN /\ ~last.completed => fresh.iteration = last.iteration
           /\ last.completed => fresh.iteration = last.iteration + 1

-----------------------------------------------------------------------------
(* SpecRound: one client calls the State Store operations in any order,     *)
(* each save a whole call that meets no I/O error, and may at any time drop *)
(* its StateManager and load the workflow into a fresh one.  loc records    *)
(* the number of calls made and whether the last one ended with a save.     *)

\* the number of State Store calls of one behaviour
MaxCalls == 5

\* state_manager.py 365-377: human_inputs[iteration] = human_input
record_human_input(state, iteration, human_input) ==
    [state EXCEPT !.human_inputs = Put(@, IntKey(iteration), human_input)]

RoundCall(saved) ==
    /\ loc' = [calls |-> (IF loc = LocInit THEN 0 ELSE loc.calls) + 1, saved |-> saved]
    /\ UNCHANGED <<mode, pc, runs, obs, eh, faults>>

RoundReady == loc # LocInit /\ cur # NoState /\ loc.calls < MaxCalls

RCreate ==
    /\ loc = LocInit
    /\ \E now \in Now :
         /\ clock' = now
         /\ cur' = WorkflowState(W1, 0, Threshold, MaxIterations, now)
    /\ AtomicSave(cur', TRUE)
    /\ RoundCall(TRUE)

RStartIteration ==
    /\ RoundReady
    /\ Len(cur.iterations) < MaxIterations
    /\ cur' = start_iteration(cur, cur.current_iteration + 1, "gentle")
    /\ RoundCall(FALSE)
    /\ UNCHANGED <<diskVars, savePc, saveBackup, saveResult, committed, clock>>

RUpdateIteration ==
    /\ RoundReady /\ cur.iterations # <<>>
    /\ cur' = update_iteration(cur, "term_protector", cur.current_text + 1)
    /\ AtomicSave(cur', FALSE)
    /\ RoundCall(TRUE)
    /\ UNCHANGED clock

RCompleteIteration ==
    /\ RoundReady /\ cur.iterations # <<>>
    /\ cur' = complete_iteration(cur, cur.current_text + 1)
    /\ AtomicSave(cur', TRUE)
    /\ RoundCall(TRUE)
    /\ UNCHANGED clock

RRecordHumanInput(iteration, human_input) ==
    /\ RoundReady
    /\ cur' = record_human_input(cur, iteration, human_input)
    /\ AtomicSave(cur', FALSE)
    /\ RoundCall(TRUE)
    /\ UNCHANGED clock

RCompleteWorkflow ==
    /\ RoundReady
    /\ \E now \in Now :
         /\ clock' = now
         /\ cur' = complete_workflow(cur, Scores(0, 0), "completed", now)
    /\ AtomicSave(cur', TRUE)
    /\ RoundCall(TRUE)

\* a fresh StateManager and load_workflow, lines 155-174
RLoad ==
    /\ RoundReady
    /\ load_workflow(live[W1]) # NoState
    /\ cur' = load_workflow(live[W1])
    /\ RoundCall(TRUE)
    /\ UNCHANGED <<diskVars, savePc, saveBackup, saveResult, committed, clock>>

NextRound ==
    \/ RCreate
    \/ RStartIteration
    \/ RUpdateIteration
    \/ RCompleteIteration
    \/ \E i \in {1, 2}, t \in {7, 8} : RRecordHumanInput(i, t)
    \/ RCompleteWorkflow
    \/ RLoad

SpecRound == InitBase /\ [][NextRound]_vars

\* C26: after a successful save_checkpoint, load_workflow in a fresh
\* StateManager yields a state equal to the saved one (the same field
\* values, the iterations in the same order, human_inputs mapping the same
\* iteration numbers to the same texts), and human_inputs never holds two
\* entries for one iteration number
C26_SaveLoadRoundTrip ==
    (loc # LocInit /\ cur # NoState /\ loc.saved) =>
        /\ load_workflow(live[cur.workflow_id]) = cur
        /\ \A k1, k2 \in DOMAIN cur.human_inputs : k1[2] = k2[2] => k1 = k2

-----------------------------------------------------------------------------
\* C27: run_pipeline takes the quality-gate exit at an iteration only if
\* detector_processor ran successfully in that iteration and reported a
\* score at or below the threshold; an iteration in which the detector
\* failed or reported no detection score never passes the gate
C27_GateNeedsDetectorScore ==
    (mode = "pipeline" /\ pc \in {"after", "done"} /\ obs.exit = "gate") =>
        /\ \E j \in DOMAIN LastIteration(cur).components_executed :
             LastIteration(cur).components_executed[j] = "detector_processor"
        /\ LastIteration(cur).component_outputs["detector_processor"] > 0
        /\ LastIteration(cur).component_outputs["detector_processor"] <= Threshold

-----------------------------------------------------------------------------
(* SpecShare: two workflows in one checkpoint directory, the id of the      *)
(* second being the id of the first followed by "_x".  A client creates     *)
(* them, saves the current one with a backup, and deletes either.           *)

\* state_manager.py 500-524: unlink the checkpoint and every file of
\* backup_dir that matches f"{workflow_id}_*.json"
DDelete(wid) ==
    /\ live' = [live EXCEPT ![wid] = NoFile]
    /\ committed' = [committed EXCEPT ![wid] = NoFile]
    /\ backups' = SelectSeq(backups, LAMBDA b : ~GlobMatches(wid, b.wid))
    /\ UNCHANGED <<tmpf, cur, savePc, saveBackup, saveResult, clock, loopVars, eh, faults>>

NextShare ==
    \/ \E wid \in Wids : BCreate(wid)
    \/ BSaveCheckpoint
    \/ \E wid \in Wids : DDelete(wid)

SpecShare == InitBase /\ [][NextShare]_vars

\* the backup files of one workflow, oldest first
BackupFilesOf(bk, wid) == SelectSeq(bk, LAMBDA b : b.wid = wid)

\* the step is a save_checkpoint(backup=True) of workflow wid
SavesWorkflow(wid) ==
    /\ cur' # NoState /\ cur'.workflow_id = wid
    /\ live'[wid] = JsonFile(json_dumps(cur'))
    /\ \A w \in Wids \ {wid} : live'[w] = live[w]

\* C28: backup rotation and deletion for one workflow never touch another
\* workflow's backups: a save_checkpoint(backup=True) or a delete_workflow on
\* A leaves the backup files of every other id B unchanged, also when B is A
\* followed by "_" and more characters, and a save removes a backup of A
\* only when A has more than Keep of them
C28_BackupsOfOthersUntouched ==
    [][\A A \in Wids :
         /\ (SavesWorkflow(A) \/ DDelete(A)) =>
               \A B \in Wids \ {A} :
                  BackupFilesOf(backups', B) = BackupFilesOf(backups, B)
         /\ (SavesWorkflow(A) /\ live[A] # NoFile) =>
               Len(BackupFilesOf(backups', A)) =
                   Min(Keep, Len(BackupFilesOf(backups, A)) + 1)]_vars

-----------------------------------------------------------------------------
\* C29: whenever update_iteration, complete_iteration or complete_workflow
\* returns normally, the durable checkpoint equals the in-memory
\* WorkflowState: a failure of the underlying save_checkpoint does not let
\* the operation return as if the change had been persisted
C29_ReturnMeansPersisted ==
    \* the last call that changed current_state was one of the three, and it
    \* has returned to its caller
    (/\ Idle /\ cur # NoState
     /\ saveResult # "none"
     /\ cur.iterations # <<>> \/ cur.status # "in_progress"
     /\ cur.iterations # <<>> =>
           \/ LastIteration(cur).completed
           \/ LastIteration(cur).components_executed # <<>>)
    => load_workflow(live[cur.workflow_id]) = cur

-----------------------------------------------------------------------------
\* C30: in run_workflow, when an iteration fails part-way and the loop goes
\* on to another attempt, the input text of that attempt is the workflow's
\* current_text as of the last completed iteration: text produced by the
\* stages of the failed iteration is not carried into the next attempt
C30_RetryStartsFromCompletedText ==
    \* run_workflow is about to call the first stage of an attempt that
    \* follows, in this execution, an iteration whose record has stages
    \* executed and was never completed
    (/\ mode = "workflow" /\ pc = "stage" /\ loc.stage = 1
     /\ cur # NoState /\ obs.starts >= 2 /\ Len(cur.iterations) >= 2
     /\ ~cur.iterations[Len(cur.iterations) - 1].completed
     /\ cur.iterations[Len(cur.iterations) - 1].components_executed # <<>>)
    => loc.text = cur.current_text

====
